---- MODULE Spec2Model ----
(***************************************************************************)
(* Model of start-openclaw.sh, the startup script of the OpenClaw         *)
(* container: concurrent invocations of the script, the lock directory     *)
(* /tmp/start-openclaw.lock, the restore from the R2 backup, onboarding,   *)
(* the configuration patch, the setup-token injection and the gateway      *)
(* child process listening on port 18789; beside the script, the backup    *)
(* sync (syncToR2) and the setup-token endpoint of the admin API.          *)
(***************************************************************************)
EXTENDS Integers, FiniteSets, Sequences, TLC

\* ------------------------------------------------------------------ bounds
NumProcs == 2
MaxTime == 1

\* ------------------------------------------------------- program constants
GATEWAY_PORT == 18789

Procs == 1..NumProcs

\* Value of the lock directory: 0 = no directory, i in Procs = the directory
\* created by invocation i, StaleLock = a directory left by a killed run.
NoLock == 0
StaleLock == NumProcs + 1

\* A file is a sequence of length 0 (no such file) or 1 (its content).
NoFile == <<>>
File(c) == <<c>>

\* Content of a .last-sync file: an ISO-8601 timestamp (written at time t),
\* text that `date -d` cannot parse, or nothing at all (a write that failed
\* after the redirection had truncated the file).
IsoMarker(t) == [kind |-> "iso", t |-> t]
JunkMarker == [kind |-> "junk", t |-> 0]
EmptyMarker == [kind |-> "empty", t |-> 0]
MarkerTexts == {IsoMarker(t) : t \in 0..MaxTime} \cup {JunkMarker, EmptyMarker}
MarkerFiles == {NoFile} \cup {File(m) : m \in MarkerTexts}

\* date -d "$TIME" +%s 2>/dev/null || echo "0": a marker written by
\* date -Iseconds has a positive epoch and a text that is no date has epoch
\* 0; for the empty string GNU date does not fail but prints the epoch of
\* today's midnight, here the time of the latest marker.
Epoch(m) ==
    IF m.kind = "iso" THEN m.t + 1
    ELSE IF m.kind = "empty" THEN MaxTime + 1
    ELSE 0

\* Faulty variant: the epochs compared with -ge instead of -gt.
should_restore_ge(r2, loc) ==
    IF r2 = NoFile THEN FALSE
    ELSE IF loc = NoFile THEN TRUE
    ELSE Epoch(r2[1]) >= Epoch(loc[1])

\* should_restore_from_r2: r2 and loc are the two .last-sync files.
should_restore_from_r2(r2, loc) ==
    IF r2 = NoFile THEN FALSE
    ELSE IF loc = NoFile THEN TRUE
    ELSE Epoch(r2[1]) > Epoch(loc[1])

\* auth-profiles.json: `token` is the token of profiles["anthropic:default"]
\* ("" when the profile has no entry), `others` the ids of the other profiles.
Creds(token, others) == [token |-> token, others |-> others]
NoCreds == Creds("", {})

\* openclaw.json, reduced to the fields the script reads or writes; rest
\* stands for everything the script leaves alone (agents, user settings).
\* A JSON object: a function from its keys to their values.
EmptyBlock == [k \in {} |-> ""]
Has(obj, k) == k \in DOMAIN obj
Put(obj, k, v) == [x \in DOMAIN obj \cup {k} |-> IF x = k THEN v ELSE obj[x]]

\* !obj[k] of JavaScript for a key that holds a string.
Falsy(obj, k) == ~Has(obj, k) \/ obj[k] = ""

\* A text that the script takes apart is a sequence of pieces, "/" and ","
\* being pieces of their own: "openai/gpt-4o" is <<"openai", "/", "gpt-4o">>.
NoText == <<>>

\* agents.defaults.model.primary: "cf-ai-gw-<provider>/<id>" has gw = TRUE.
NoModel == [set |-> FALSE, gw |-> FALSE, provider |-> NoText, id |-> NoText]
Model(gw, provider, id) ==
    [set |-> TRUE, gw |-> gw, provider |-> provider, id |-> id]

Doc(port, mode, token, trusted, profile, provider, rest) ==
    [port |-> port, mode |-> mode, token |-> token, trusted |-> trusted,
     profile |-> profile, provider |-> provider, rest |-> rest,
     insecure |-> FALSE,         \* gateway.controlUi.allowInsecureAuth
     http |-> FALSE,             \* gateway.http.endpoints.* enabled
     gwProviders |-> EmptyBlock, \* models.providers["cf-ai-gw-" + name]
     primary |-> NoModel,        \* agents.defaults.model
     channels |-> EmptyBlock,    \* channels.telegram, .discord, .slack
     others |-> {}]              \* auth.profiles, but for anthropic:default
EmptyDoc == Doc(0, "", "", FALSE, FALSE, FALSE, "none")
OnboardDoc == Doc(GATEWAY_PORT, "local", "", FALSE, FALSE, FALSE, "onboard")
UserDoc == Doc(8080, "remote", "old", FALSE, FALSE, FALSE, "user")
BackupDoc == Doc(GATEWAY_PORT, "local", "", TRUE, FALSE, FALSE, "backup")

\* The environment variables read by the patch script, "" or <<>> = unset.
NoPatchEnv ==
    [devMode |-> "",                 \* OPENCLAW_DEV_MODE
     cfModel |-> NoText,             \* CF_AI_GATEWAY_MODEL
     cfAccountId |-> "",             \* CF_AI_GATEWAY_ACCOUNT_ID
     cfGatewayId |-> "",             \* CF_AI_GATEWAY_GATEWAY_ID
     cfApiKey |-> "",                \* CLOUDFLARE_AI_GATEWAY_API_KEY
     accountId |-> "",               \* CF_ACCOUNT_ID
     telegramToken |-> "",           \* TELEGRAM_BOT_TOKEN
     telegramDmPolicy |-> "",        \* TELEGRAM_DM_POLICY
     telegramAllowFrom |-> NoText,   \* TELEGRAM_DM_ALLOW_FROM
     discordToken |-> "",            \* DISCORD_BOT_TOKEN
     discordDmPolicy |-> "",         \* DISCORD_DM_POLICY
     slackBotToken |-> "",           \* SLACK_BOT_TOKEN
     slackAppToken |-> "",           \* SLACK_APP_TOKEN
     anthropicKey |-> "",            \* ANTHROPIC_API_KEY
     openaiKey |-> ""]               \* OPENAI_API_KEY

\* What syncToR2 returns: { success, lastSync } or { success: false, error }.
\* `done` records how many rsync runs of the call's own command succeeded.
NoResult == [success |-> FALSE, error |-> "never ran", done |-> 0]
SyncOk == [success |-> TRUE, error |-> "", done |-> 0]
SyncError(e) == [success |-> FALSE, error |-> e, done |-> 0]

\* The restart handler's last run: the gateway it killed and the invocation
\* its ensureGateway started; 0 = none.
NoRestart == [old |-> 0, by |-> 0]

\* A directory tree: a function from file names to contents.
EmptyTree == <<>>
LocalTree == [f \in {1} |-> "local"]
BackupTree == [f \in {1, 2} |-> "backup"]

\* cp -a src/. dst/ : every file of src replaces or is added to dst.
CopyOver(src, dst) ==
    [f \in (DOMAIN src) \cup (DOMAIN dst) |->
        IF f \in DOMAIN src THEN src[f] ELSE dst[f]]

\* A file copied over a file: the source wins when it exists.
CopyFile(src, dst) == IF src = NoFile THEN dst ELSE src

VARIABLES
    pc,            \* position of each invocation in the script
    rc,            \* exit status of each invocation (-1 while running)
    out,           \* outcome reported by each invocation
    tries,         \* mkdir "$LOCKFILE" attempts made by each invocation
    trap,          \* whether the EXIT trap is installed
    tried,         \* trees whose restore copy the invocation started
    restored,      \* trees whose restore copy succeeded
    warned,        \* trees whose failed copy was logged as a WARNING
    onboarded,     \* whether the invocation ran openclaw onboard
    lockfile,      \* /tmp/start-openclaw.lock
    configFile,    \* /root/.openclaw/openclaw.json
    profilesFile,  \* agents/main/agent/auth-profiles.json
    localSync,     \* /root/.openclaw/.last-sync
    workspace,     \* /root/clawd
    skills,        \* /root/clawd/skills
    r2Config,      \* /data/openclaw/openclaw/openclaw.json
    r2Profiles,    \* auth-profiles.json in the backup
    r2Sync,        \* /data/openclaw/.last-sync
    r2Workspace,   \* /data/openclaw/workspace
    r2Skills,      \* /data/openclaw/skills
    r2Inner,       \* /data/openclaw/openclaw/.last-sync
    gatewayToken,  \* OPENCLAW_GATEWAY_TOKEN
    setupToken,    \* CLAUDE_SETUP_TOKEN
    patchEnv,      \* the environment variables the patch script reads
    gw,            \* state of the gateway child of each invocation
    gwPort,        \* --port the gateway child was started with
    gwAuth,        \* --token the gateway child was started with
    gwExit,        \* exit status of the gateway child
    now,           \* the clock of `date`, in seconds
    unsynced,      \* an admin change was written after the last sync
    patchLog,      \* document read and written by each run of the patch
    onboardArgs,   \* --auth-choice the last `openclaw onboard` was given
    syncResult,    \* what the last call of syncToR2 returned
    restart,       \* the last POST /api/admin/gateway/restart
    req            \* the admin request under way for each profile id

procVars == <<pc, rc, out, tries, trap, tried, restored, warned, onboarded>>
localVars == <<configFile, profilesFile, localSync, workspace, skills>>
r2Vars == <<r2Config, r2Profiles, r2Sync, r2Workspace, r2Skills, r2Inner>>
envVars == <<gatewayToken, setupToken, patchEnv>>
gwVars == <<gw, gwPort, gwAuth, gwExit>>
logVars == <<onboardArgs, syncResult, restart, req>>
auxVars == <<now, unsynced, patchLog, logVars>>
vars == <<procVars, lockfile, localVars, r2Vars, envVars, gwVars, auxVars>>

\* ------------------------------------------------------------ script steps
Running == {"probe", "lock1", "rm", "lock2", "restoreCfg", "restoreWs",
            "restoreSk", "onboard", "patch", "inject", "launch", "wait"}
LockSteps == {"probe", "lock1", "rm", "lock2"}
BootSteps == {"restoreCfg", "restoreWs", "restoreSk", "onboard", "patch",
              "inject", "launch"}
Alive == {"starting", "listening"}
MaxExit == 1
ExitCodes == 0..MaxExit
Trees == {"config", "workspace", "skills"}

\* Faulty variant: a probe that never succeeds (curl missing from the container).
ProbeOk_never == FALSE

\* curl -sf --max-time 2 http://localhost:18789/
ProbeOk == \E j \in Procs : gw[j] = "listening" /\ gwPort[j] = GATEWAY_PORT

\* Faulty variant: no cleanup at exit (the gateway exec'ed, the trap never fires).
TrapExit_exec(lk) == lk

\* rmdir "$LOCKFILE" of the EXIT trap: the directory at the path is removed,
\* whoever created it.
TrapExit(lk) == NoLock

\* Faulty variant: the trap installed before the lock is acquired.
AbortExit_trapFirst(lk) == NoLock

\* The lock directory after an invocation ends without having acquired it.
AbortExit(lk) == lk

\* exit: the EXIT trap runs when it is installed.
Finish(i, code, msg) ==
    /\ pc' = [pc EXCEPT ![i] = "done"]
    /\ rc' = [rc EXCEPT ![i] = code]
    /\ out' = [out EXCEPT ![i] = msg]
    /\ lockfile' = IF trap[i] THEN TrapExit(lockfile) ELSE AbortExit(lockfile)

Goto(i, next) ==
    /\ pc' = [pc EXCEPT ![i] = next]
    /\ UNCHANGED <<rc, out>>

\* A new run of start-openclaw.sh.
Start(i) ==
    /\ pc[i] \in {"idle", "done", "killed"}
    /\ gw[i] \notin Alive
    /\ pc' = [pc EXCEPT ![i] = "probe"]
    /\ rc' = [rc EXCEPT ![i] = -1]
    /\ out' = [out EXCEPT ![i] = "none"]
    /\ tries' = [tries EXCEPT ![i] = 0]
    /\ trap' = [trap EXCEPT ![i] = FALSE]
    /\ tried' = [tried EXCEPT ![i] = {}]
    /\ restored' = [restored EXCEPT ![i] = {}]
    /\ warned' = [warned EXCEPT ![i] = {}]
    /\ onboarded' = [onboarded EXCEPT ![i] = FALSE]
    /\ gw' = [gw EXCEPT ![i] = "none"]
    /\ gwPort' = [gwPort EXCEPT ![i] = 0]
    /\ gwAuth' = [gwAuth EXCEPT ![i] = ""]
    /\ gwExit' = [gwExit EXCEPT ![i] = 0]
    /\ UNCHANGED <<lockfile, localVars, r2Vars, envVars, auxVars>>

\* Lines 15-18: the liveness check.
Probe(i) ==
    /\ pc[i] = "probe"
    /\ IF ProbeOk
       THEN Finish(i, 0, "already")
       ELSE Goto(i, "lock1") /\ UNCHANGED lockfile
    /\ UNCHANGED <<tries, trap, tried, restored, warned, onboarded, localVars,
                   r2Vars, envVars, auxVars, gwVars>>

\* mkdir "$LOCKFILE" succeeded: the trap is installed, the script goes on.
Acquire(i) ==
    /\ lockfile' = i
    /\ trap' = [trap EXCEPT ![i] = TRUE]
    /\ Goto(i, "restoreCfg")

\* Line 24: the first mkdir "$LOCKFILE".
FirstMkdir(i) ==
    /\ pc[i] = "lock1"
    /\ tries' = [tries EXCEPT ![i] = @ + 1]
    /\ IF lockfile = NoLock
       THEN Acquire(i)
       ELSE Goto(i, "rm") /\ UNCHANGED <<lockfile, trap>>
    /\ UNCHANGED <<tried, restored, warned, onboarded, localVars, r2Vars,
                   envVars, auxVars, gwVars>>

\* Faulty variant: the stale directory is left in place.
RemoveStale_keep(i) ==
    /\ pc[i] = "rm"
    /\ Goto(i, "lock2")
    /\ UNCHANGED <<lockfile, tries, trap, tried, restored, warned, onboarded,
                   localVars, r2Vars, envVars, auxVars, gwVars>>

\* Line 28: rm -rf "$LOCKFILE".
RemoveStale(i) ==
    /\ pc[i] = "rm"
    /\ lockfile' = NoLock
    /\ Goto(i, "lock2")
    /\ UNCHANGED <<tries, trap, tried, restored, warned, onboarded, localVars,
                   r2Vars, envVars, auxVars, gwVars>>

\* Faulty variant: the lock error is reported with status 0.
RetryFailed_silent(i) == Finish(i, 0, "lockfail") /\ UNCHANGED trap

\* Faulty variant: a failed retry goes back to the forced removal.
RetryFailed_loop(i) == Goto(i, "rm") /\ UNCHANGED <<lockfile, trap>>

\* Lines 30-31: the retry failed.
RetryFailed(i) == Finish(i, 1, "lockfail") /\ UNCHANGED trap

\* Line 29: the second mkdir "$LOCKFILE".
RetryMkdir(i) ==
    /\ pc[i] = "lock2"
    /\ tries' = [tries EXCEPT ![i] = @ + 1]
    /\ IF lockfile = NoLock THEN Acquire(i) ELSE RetryFailed(i)
    /\ UNCHANGED <<tried, restored, warned, onboarded, localVars, r2Vars,
                   envVars, auxVars, gwVars>>
\* A restore copy that timed out or failed leaves any part of it done.
Partial(before, after) == {before, after}

\* Faulty variant: after a failing command the script starts the sequence
\* over.
StepFailed_retry(i) == Goto(i, "restoreCfg") /\ UNCHANGED lockfile

\* Faulty variant: a failing command ends the script with status 0.
StepFailed_zero(i) == Finish(i, 0, "stepfail")

\* A command failed under set -e: the script exits with its status.
StepFailed(i) == Finish(i, 1, "stepfail")

\* Faulty variant: a failed restore copy ends the invocation.
CopyFailed_fatal(i, tree, next) ==
    /\ warned' = [warned EXCEPT ![i] = @ \cup {tree}]
    /\ StepFailed(i)

\* Lines 92-94, 111-113, 125-127: the else branch of `if timeout 60 cp -a`:
\* the WARNING line is written and the script goes on.
CopyFailed(i, tree, next) ==
    /\ warned' = [warned EXCEPT ![i] = @ \cup {tree}]
    /\ Goto(i, next)
    /\ UNCHANGED lockfile

\* The copy succeeded, or the restore was not due: the script goes on.
CopyDone(i, next) ==
    /\ Goto(i, next)
    /\ UNCHANGED <<warned, lockfile>>

\* Faulty variant: the restore moves the marker out of the backup.
BackupKept_moved ==
    /\ r2Sync' = NoFile
    /\ UNCHANGED <<r2Config, r2Profiles, r2Workspace, r2Skills, r2Inner>>

\* Lines 90-101: the backup is the source of cp -a and of the marker reads,
\* never a destination.
BackupKept == UNCHANGED r2Vars

\* Faulty variant: the backup marker is not copied after the restore.
MarkerCopied_never(r2, loc) == loc

\* Line 90: cp -f "$BACKUP_DIR/.last-sync" "$CONFIG_DIR/.last-sync" || true,
\* run when the copy of the configuration tree succeeded.
MarkerCopied(r2, loc) == CopyFile(r2, loc)

\* Lines 86-95: restore of the configuration tree and of the marker.
RestoreConfig(i) ==
    /\ pc[i] = "restoreCfg"
    /\ IF r2Config # NoFile /\ should_restore_from_r2(r2Sync, localSync)
       THEN /\ tried' = [tried EXCEPT ![i] = @ \cup {"config"}]
            /\ \/ /\ configFile' = r2Config
                  /\ profilesFile' = CopyFile(r2Profiles, profilesFile)
                  /\ localSync' = MarkerCopied(r2Sync, localSync)
                  /\ restored' = [restored EXCEPT ![i] = @ \cup {"config"}]
                  /\ CopyDone(i, "restoreWs")
               \/ /\ configFile' \in Partial(configFile, r2Config)
                  /\ profilesFile' \in
                        Partial(profilesFile, CopyFile(r2Profiles, profilesFile))
                  /\ localSync' \in
                        Partial(localSync, CopyFile(r2Inner, localSync))
                  /\ UNCHANGED restored
                  /\ CopyFailed(i, "config", "restoreWs")
       ELSE /\ UNCHANGED <<tried, restored, configFile, profilesFile,
                           localSync>>
            /\ CopyDone(i, "restoreWs")
    /\ BackupKept
    /\ UNCHANGED <<tries, trap, onboarded, workspace, skills, envVars,
                   auxVars, gwVars>>

\* Lines 104-115: restore of the workspace tree.
RestoreWorkspace(i) ==
    /\ pc[i] = "restoreWs"
    /\ IF r2Workspace # EmptyTree /\ should_restore_from_r2(r2Sync, localSync)
       THEN /\ tried' = [tried EXCEPT ![i] = @ \cup {"workspace"}]
            /\ \/ /\ workspace' = CopyOver(r2Workspace, workspace)
                  /\ restored' = [restored EXCEPT ![i] = @ \cup {"workspace"}]
                  /\ CopyDone(i, "restoreSk")
               \/ /\ workspace' \in
                        Partial(workspace, CopyOver(r2Workspace, workspace))
                  /\ UNCHANGED restored
                  /\ CopyFailed(i, "workspace", "restoreSk")
       ELSE /\ UNCHANGED <<tried, restored, workspace>>
            /\ CopyDone(i, "restoreSk")
    /\ UNCHANGED <<tries, trap, onboarded, configFile, profilesFile,
                   localSync, skills, r2Vars, envVars, auxVars, gwVars>>

\* Lines 118-129: restore of the skills tree.
RestoreSkills(i) ==
    /\ pc[i] = "restoreSk"
    /\ IF r2Skills # EmptyTree /\ should_restore_from_r2(r2Sync, localSync)
       THEN /\ tried' = [tried EXCEPT ![i] = @ \cup {"skills"}]
            /\ \/ /\ skills' = CopyOver(r2Skills, skills)
                  /\ restored' = [restored EXCEPT ![i] = @ \cup {"skills"}]
                  /\ CopyDone(i, "onboard")
               \/ /\ skills' \in Partial(skills, CopyOver(r2Skills, skills))
                  /\ UNCHANGED restored
                  /\ CopyFailed(i, "skills", "onboard")
       ELSE /\ UNCHANGED <<tried, restored, skills>>
            /\ CopyDone(i, "onboard")
    /\ UNCHANGED <<tries, trap, onboarded, configFile, profilesFile,
                   localSync, workspace, r2Vars, envVars, auxVars, gwVars>>

\* Faulty variant: an empty document counts as no configuration.
NeedOnboard_empty(f) == f = NoFile \/ f = File(EmptyDoc)

\* Line 134: [ ! -f "$CONFIG_FILE" ], whatever the file holds.
NeedOnboard(f) == f = NoFile

\* Lines 137-147: AUTH_ARGS, the credential `openclaw onboard` is told to use;
\* "" = no --auth-choice at all.
NoArgs == ""

\* Faulty variant: the Anthropic key is preferred to the gateway proxy.
AuthChoice_anthropicFirst(env) ==
    IF env.anthropicKey # "" THEN "apiKey"
    ELSE IF env.cfApiKey # "" /\ env.cfAccountId # "" /\ env.cfGatewayId # ""
         THEN "cloudflare-ai-gateway-api-key"
    ELSE IF env.openaiKey # "" THEN "openai-api-key"
    ELSE NoArgs

AuthChoice(env) ==
    IF env.cfApiKey # "" /\ env.cfAccountId # "" /\ env.cfGatewayId # ""
    THEN "cloudflare-ai-gateway-api-key"
    ELSE IF env.anthropicKey # "" THEN "apiKey"
    ELSE IF env.openaiKey # "" THEN "openai-api-key"
    ELSE NoArgs

\* Lines 134-161: openclaw onboard, only when there is no openclaw.json.
Onboard(i) ==
    /\ pc[i] = "onboard"
    /\ IF NeedOnboard(configFile)
       THEN /\ onboardArgs' = AuthChoice(patchEnv)
            /\ onboarded' = [onboarded EXCEPT ![i] = TRUE]
            /\ \/ /\ configFile' = File(OnboardDoc)
                  /\ Goto(i, "patch")
                  /\ UNCHANGED lockfile
               \/ /\ StepFailed(i)
                  /\ UNCHANGED configFile
       ELSE /\ Goto(i, "patch")
            /\ UNCHANGED <<configFile, onboarded, lockfile, onboardArgs>>
    /\ UNCHANGED <<tries, trap, tried, restored, warned, profilesFile,
                   localSync, workspace, skills, r2Vars, envVars, now,
                   unsynced, patchLog, syncResult, restart, req, gwVars>>

\* Lines 176-182: the document the patch starts from.
ReadDoc(f) == IF f = NoFile THEN EmptyDoc ELSE f[1]

\* Faulty variant: the auth token of the environment is not written.
PatchDoc_noToken(d, token) ==
    [d EXCEPT !.port = GATEWAY_PORT, !.mode = "local", !.trusted = TRUE]

\* Faulty variant: a persisted port and mode are kept.
PatchDoc_keepPort(d, token) ==
    [d EXCEPT !.port = IF @ = 0 THEN GATEWAY_PORT ELSE @,
              !.mode = IF @ = "" THEN "local" ELSE @,
              !.trusted = TRUE,
              !.token = IF token # "" THEN token ELSE @]

\* Lines 184-195: gateway port, mode, trusted proxies and auth token.
PatchDoc(d, token) ==
    [d EXCEPT !.port = GATEWAY_PORT,
              !.mode = "local",
              !.trusted = TRUE,
              !.token = IF token # "" THEN token ELSE @]

\* Lines 197-200: OPENCLAW_DEV_MODE === 'true'.
DevMode(d, env) ==
    IF env.devMode = "true" THEN [d EXCEPT !.insecure = TRUE] ELSE d

\* Lines 204-207: the HTTP endpoints chatCompletions and responses.
HttpEndpoints(d) == [d EXCEPT !.http = TRUE]

\* Lines 223-237: providers and default model left by a gateway
\* configuration that the environment no longer holds.
CleanStale(d, env) ==
    IF env.cfModel = NoText /\ env.cfApiKey = ""
    THEN [d EXCEPT !.gwProviders = EmptyBlock,
                   !.primary = IF @.set /\ @.gw THEN NoModel ELSE @]
    ELSE d

\* raw.indexOf(c): position from 0 of the first c, -1 when there is none.
IndexOf(raw, c) ==
    IF \E k \in 1..Len(raw) : raw[k] = c
    THEN (CHOOSE k \in 1..Len(raw) :
             raw[k] = c /\ \A j \in 1..(k - 1) : raw[j] # c) - 1
    ELSE -1

\* Lines 252-258: the base URL of the provider, <<>> when it is undefined.
BaseUrl(gwProvider, env) ==
    IF env.cfAccountId # "" /\ env.cfGatewayId # ""
    THEN <<"gateway.ai.cloudflare.com", env.cfAccountId, env.cfGatewayId>>
            \o gwProvider
            \o (IF gwProvider = <<"workers-ai">> THEN <<"v1">> ELSE <<>>)
    ELSE IF gwProvider = <<"workers-ai">> /\ env.accountId # ""
         THEN <<"api.cloudflare.com", env.accountId, "ai", "v1">>
         ELSE <<>>

\* Lines 239-280: CF_AI_GATEWAY_MODEL = provider/model-id.
ModelOverride(d, env) ==
    LET raw == env.cfModel
        slashIdx == IndexOf(raw, "/")
        gwProvider == SubSeq(raw, 1, slashIdx)
        modelId == SubSeq(raw, slashIdx + 2, Len(raw))
        baseUrl == BaseUrl(gwProvider, env)
        api == IF gwProvider = <<"anthropic">> THEN "anthropic-messages"
               ELSE "openai-completions"
    IN  IF raw = NoText \/ slashIdx <= 0 \/ baseUrl = <<>> \/ env.cfApiKey = ""
        THEN d
        ELSE [d EXCEPT
                 !.gwProviders = Put(@, gwProvider,
                     [baseUrl |-> baseUrl, apiKey |-> env.cfApiKey,
                      api |-> api, models |-> <<modelId>>]),
                 !.primary = Model(TRUE, gwProvider, modelId)]

\* Lines 288-314: the keys of each channel block that OpenClaw accepts.
VALID_TELEGRAM_KEYS ==
    {"name", "capabilities", "markdown", "commands", "customCommands",
     "configWrites", "dmPolicy", "enabled", "botToken", "tokenFile",
     "replyToMode", "groups", "allowFrom", "groupAllowFrom", "groupPolicy",
     "historyLimit", "dmHistoryLimit", "dms", "textChunkLimit", "chunkMode",
     "blockStreaming", "draftChunk", "blockStreamingCoalesce", "streamMode",
     "mediaMaxMb", "timeoutSeconds", "retry", "network", "proxy",
     "webhookUrl", "webhookSecret", "webhookPath", "actions",
     "reactionNotifications", "reactionLevel", "heartbeat", "linkPreview",
     "responsePrefix", "accounts"}

VALID_DISCORD_KEYS ==
    {"name", "capabilities", "markdown", "commands", "configWrites",
     "enabled", "token", "allowBots", "groupPolicy", "textChunkLimit",
     "chunkMode", "blockStreaming", "blockStreamingCoalesce",
     "maxLinesPerMessage", "mediaMaxMb", "historyLimit", "dmHistoryLimit",
     "dms", "retry", "actions", "replyToMode", "dm", "guilds", "heartbeat",
     "execApprovals", "intents", "pluralkit", "responsePrefix", "accounts"}

VALID_SLACK_KEYS ==
    {"name", "capabilities", "markdown", "commands", "configWrites",
     "enabled", "botToken", "appToken", "userToken", "userTokenReadOnly",
     "allowBots", "requireMention", "groupPolicy", "historyLimit",
     "dmHistoryLimit", "dms", "textChunkLimit", "chunkMode",
     "blockStreaming", "blockStreamingCoalesce", "mediaMaxMb",
     "reactionNotifications", "reactionAllowlist", "replyToMode",
     "replyToModeByChatType", "thread", "actions", "slashCommand", "dm",
     "channels", "heartbeat", "responsePrefix", "accounts"}

\* Faulty variant: no persisted key is kept.
filterKeys_dropAll(obj, validKeys) == EmptyBlock

\* Faulty variant: every key is kept.
filterKeys_keepAll(obj, validKeys) == obj

\* Lines 316-323: the block restricted to the valid keys.
filterKeys(obj, validKeys) ==
    [k \in DOMAIN obj \cap validKeys |-> obj[k]]

\* config.channels[ch] || {}
ChannelBlock(d, ch) ==
    IF Has(d.channels, ch) THEN d.channels[ch] ELSE EmptyBlock

\* text.split(','): the pieces between the commas.
RECURSIVE Split(_)
Split(text) ==
    LET k == IndexOf(text, ",")
    IN  IF k = -1 THEN <<text>>
        ELSE <<SubSeq(text, 1, k)>> \o Split(SubSeq(text, k + 2, Len(text)))

\* Lines 326-338: the Telegram block, when TELEGRAM_BOT_TOKEN is set.
Telegram(d, env) ==
    LET e0 == filterKeys(ChannelBlock(d, "telegram"), VALID_TELEGRAM_KEYS)
        e1 == Put(Put(e0, "botToken", env.telegramToken), "enabled", TRUE)
        e2 == IF env.telegramDmPolicy # ""
              THEN Put(e1, "dmPolicy", env.telegramDmPolicy) ELSE e1
        e3 == IF Falsy(e2, "dmPolicy") THEN Put(e2, "dmPolicy", "pairing")
              ELSE e2
        e4 == IF env.telegramAllowFrom # NoText
              THEN Put(e3, "allowFrom", Split(env.telegramAllowFrom))
              ELSE IF e3["dmPolicy"] = "open" /\ ~Has(e3, "allowFrom")
                   THEN Put(e3, "allowFrom", << <<"*">> >>)
                   ELSE e3
    IN  IF env.telegramToken = "" THEN d
        ELSE [d EXCEPT !.channels = Put(@, "telegram", e4)]

\* Lines 341-352: the Discord block, when DISCORD_BOT_TOKEN is set.
Discord(d, env) ==
    LET e0 == filterKeys(ChannelBlock(d, "discord"), VALID_DISCORD_KEYS)
        e1 == Put(Put(e0, "token", env.discordToken), "enabled", TRUE)
        dm0 == IF Has(e1, "dm") THEN e1["dm"] ELSE EmptyBlock
        dm1 == IF env.discordDmPolicy # ""
               THEN Put(dm0, "policy", env.discordDmPolicy) ELSE dm0
        dm2 == IF Falsy(dm1, "policy") THEN Put(dm1, "policy", "pairing")
               ELSE dm1
        dm3 == IF dm2["policy"] = "open" /\ ~Has(dm2, "allowFrom")
               THEN Put(dm2, "allowFrom", << <<"*">> >>)
               ELSE dm2
    IN  IF env.discordToken = "" THEN d
        ELSE [d EXCEPT !.channels = Put(@, "discord", Put(e1, "dm", dm3))]

\* Lines 355-361: the Slack block, when both Slack tokens are set.
Slack(d, env) ==
    LET e0 == filterKeys(ChannelBlock(d, "slack"), VALID_SLACK_KEYS)
        e1 == Put(Put(Put(e0, "botToken", env.slackBotToken),
                      "appToken", env.slackAppToken), "enabled", TRUE)
    IN  IF env.slackBotToken = "" \/ env.slackAppToken = "" THEN d
        ELSE [d EXCEPT !.channels = Put(@, "slack", e1)]

\* Lines 171-365: the document the patch script writes.
PatchConfig(d, token, env) ==
    Slack(Discord(Telegram(ModelOverride(CleanStale(
        HttpEndpoints(DevMode(PatchDoc(d, token), env)), env), env), env),
        env), env)

\* Bound on the runs of the patch script on its own.
MaxPatches == 2

\* node << EOFPATCH run on its own, on whatever document is there.
RunPatch ==
    /\ Len(patchLog) < MaxPatches
    /\ configFile' = File(PatchConfig(ReadDoc(configFile), gatewayToken,
                                      patchEnv))
    /\ patchLog' = Append(patchLog, [before |-> ReadDoc(configFile),
                                     after |-> configFile'[1]])
    /\ UNCHANGED <<procVars, lockfile, profilesFile, localSync, workspace,
                   skills, r2Vars, envVars, gwVars, now, unsynced, logVars>>
\* Lines 171-365: the patch step.
Patch(i) ==
    /\ pc[i] = "patch"
    /\ \/ /\ configFile' = File(PatchConfig(ReadDoc(configFile), gatewayToken,
                                            patchEnv))
          /\ Goto(i, "inject")
          /\ UNCHANGED lockfile
       \/ /\ StepFailed(i)
          /\ UNCHANGED configFile
    /\ UNCHANGED <<tries, trap, tried, restored, warned, onboarded,
                   profilesFile, localSync, workspace, skills, r2Vars, envVars,
                   auxVars, gwVars>>

\* Line 391: no token is stored for anthropic:default.
\* Faulty variant: the persisted token is never looked at.
NoStoredToken_always(f) == TRUE

NoStoredToken(f) == f = NoFile \/ f[1].token = ""

\* Lines 385-387, api.ts 381-391: the store as parsed, {} for a missing file.
ReadCreds(f) == IF f = NoFile THEN NoCreds ELSE f[1]

\* Lines 401-418: the profile reference and the provider stub.
InjectDoc(d) == [d EXCEPT !.profile = TRUE, !.provider = TRUE]

\* Lines 372-424: injection of CLAUDE_SETUP_TOKEN.
Inject(i) ==
    /\ pc[i] = "inject"
    /\ \/ /\ IF setupToken # "" /\ NoStoredToken(profilesFile)
             THEN /\ profilesFile' = File([ReadCreds(profilesFile)
                                               EXCEPT !.token = setupToken])
                  /\ configFile' = File(InjectDoc(ReadDoc(configFile)))
             ELSE UNCHANGED <<profilesFile, configFile>>
          /\ Goto(i, "launch")
          /\ UNCHANGED lockfile
       \/ /\ setupToken # ""
          /\ StepFailed(i)
          /\ UNCHANGED <<profilesFile, configFile>>
    /\ UNCHANGED <<tries, trap, tried, restored, warned, onboarded, localSync,
                   workspace, skills, r2Vars, envVars, auxVars, gwVars>>

\* Faulty variant: a port that differs from one invocation to the next.
LaunchPort_perRun(i) == GATEWAY_PORT + i

\* --port of the gateway command line.
LaunchPort(i) == GATEWAY_PORT

\* Faulty variant: the gateway is always started without --token.
LaunchToken_none(token) == ""

\* Lines 440-446: --token "$OPENCLAW_GATEWAY_TOKEN" when the variable is
\* non-empty, no --token ("") otherwise.
LaunchToken(token) == IF token # "" THEN token ELSE ""

\* Lines 440-448: the gateway is started as a child process.
Launch(i) ==
    /\ pc[i] = "launch"
    /\ gw' = [gw EXCEPT ![i] = "starting"]
    /\ gwPort' = [gwPort EXCEPT ![i] = LaunchPort(i)]
    /\ gwAuth' = [gwAuth EXCEPT ![i] = LaunchToken(gatewayToken)]
    /\ Goto(i, "wait")
    /\ UNCHANGED <<gwExit, tries, trap, tried, restored, warned, onboarded,
                   lockfile, localVars, r2Vars, envVars, auxVars>>

\* Faulty variant: the invocation ends with status 0 whatever the gateway's.
WaitGateway_zero(i) ==
    /\ pc[i] = "wait"
    /\ gw[i] = "dead"
    /\ Finish(i, 0, "gateway")
    /\ UNCHANGED <<tries, trap, tried, restored, warned, onboarded, localVars,
                   r2Vars, envVars, auxVars, gwVars>>

\* Lines 453-456: wait $GATEWAY_PID, then exit with its status.
WaitGateway(i) ==
    /\ pc[i] = "wait"
    /\ gw[i] = "dead"
    /\ Finish(i, gwExit[i], "gateway")
    /\ UNCHANGED <<tries, trap, tried, restored, warned, onboarded, localVars,
                   r2Vars, envVars, auxVars, gwVars>>

\* The gateway child binds its port: a port has one listener at a time.
GatewayListen(i) ==
    /\ gw[i] = "starting"
    /\ \A j \in Procs : ~(gw[j] = "listening" /\ gwPort[j] = gwPort[i])
    /\ gw' = [gw EXCEPT ![i] = "listening"]
    /\ UNCHANGED <<procVars, lockfile, localVars, r2Vars, envVars, auxVars,
                   gwPort, gwAuth, gwExit>>

\* The gateway child exits: shutdown, crash or a failed bind.
GatewayExit(i) ==
    /\ gw[i] \in Alive
    /\ gw' = [gw EXCEPT ![i] = "dead"]
    /\ \E code \in ExitCodes : gwExit' = [gwExit EXCEPT ![i] = code]
    /\ UNCHANGED <<procVars, lockfile, localVars, r2Vars, envVars, auxVars,
                   gwPort, gwAuth>>

\* SIGKILL of a running invocation: no trap runs, the child lives on.
ForceKill(i) ==
    /\ pc[i] \in Running
    /\ pc' = [pc EXCEPT ![i] = "killed"]
    /\ rc' = [rc EXCEPT ![i] = 137]
    /\ out' = [out EXCEPT ![i] = "killed"]
    /\ UNCHANGED <<tries, trap, tried, restored, warned, onboarded, lockfile,
                   localVars, r2Vars, envVars, auxVars, gwVars>>

\* api.ts 419-435: the profile reference, the default model and the
\* provider stub written by POST /api/admin/auth/setup-token.
AdminDoc(d) ==
    [d EXCEPT !.profile = TRUE,
              !.provider = TRUE,
              !.primary = Model(FALSE, <<"anthropic">>, <<"claude-sonnet-4-5">>)]

\* POST /api/admin/auth/setup-token: with the gateway up, the token is
\* written to auth-profiles.json and referenced in openclaw.json, then the
\* gateway process is killed for a restart (a failed kill is only logged).
AdminSetToken ==
    /\ \E j \in Procs : gw[j] = "listening"
    /\ profilesFile' = File([ReadCreds(profilesFile)
                                 EXCEPT !.token = "admin-token"])
    /\ configFile' = File(AdminDoc(ReadDoc(configFile)))
    /\ unsynced' = TRUE
    /\ \E killed \in BOOLEAN :
          /\ gw' = [j \in Procs |->
                       IF killed /\ gw[j] \in Alive THEN "dead" ELSE gw[j]]
          /\ gwExit' = [j \in Procs |->
                           IF killed /\ gw[j] \in Alive THEN MaxExit
                           ELSE gwExit[j]]
    /\ UNCHANGED <<procVars, lockfile, localSync, workspace, skills, r2Vars,
                   envVars, gwPort, gwAuth, now, patchLog, logVars>>

\* The profile ids the admin requests name: `${provider}:default`.
ProfileIds == {"anthropic:default", "openai:default"}
Kinds == {"set", "delete"}

\* A request: where its handler is, what it was asked, what it read from
\* auth-profiles.json and from openclaw.json, and the status it answered.
NoRequest ==
    [pc |-> "idle", kind |-> "none", creds |-> NoCreds, doc |-> EmptyDoc,
     status |-> 0]

\* api.ts 492: profileId in profilesMap.
InCreds(c, p) ==
    IF p = "anthropic:default" THEN c.token # "" ELSE p \in c.others

\* api.ts 394-398: parsed.profiles[profileId] = {type, provider, token}.
SetCreds(c, p) ==
    IF p = "anthropic:default" THEN [c EXCEPT !.token = "admin-token"]
    ELSE [c EXCEPT !.others = @ \cup {p}]

\* api.ts 496-497: delete profilesMap[profileId].
DelCreds(c, p) ==
    IF p = "anthropic:default" THEN [c EXCEPT !.token = ""]
    ELSE [c EXCEPT !.others = @ \ {p}]

\* api.ts 518: config.auth?.profiles?.[profileId].
InDoc(d, p) == IF p = "anthropic:default" THEN d.profile ELSE p \in d.others

\* api.ts 419-435: the profile reference and, for anthropic, the default
\* model and the provider stub.
SetDoc(d, p) ==
    IF p = "anthropic:default" THEN AdminDoc(d)
    ELSE [d EXCEPT !.others = @ \cup {p}]

\* api.ts 519: delete config.auth.profiles[profileId].
DelDoc(d, p) ==
    IF p = "anthropic:default" THEN [d EXCEPT !.profile = FALSE]
    ELSE [d EXCEPT !.others = @ \ {p}]

\* api.ts 378-391 and 479-494: ensureGateway has returned, then `cat
\* auth-profiles.json || echo "{}"` is run and parsed; a DELETE for a profile
\* that is not in the store answers 404.
ReadStore(p, k) ==
    /\ req[p].pc = "idle"
    /\ \E j \in Procs : gw[j] = "listening"
    /\ LET c == ReadCreds(profilesFile) IN
          req' = [req EXCEPT ![p] =
                     IF k = "delete" /\ ~InCreds(c, p)
                     THEN [NoRequest EXCEPT !.pc = "done", !.kind = k,
                                            !.status = 404]
                     ELSE [NoRequest EXCEPT !.pc = "writeStore", !.kind = k,
                                            !.creds = c]]
    /\ UNCHANGED <<procVars, lockfile, localVars, r2Vars, envVars, gwVars,
                   now, unsynced, patchLog, onboardArgs, syncResult, restart>>

\* api.ts 400-405 and 499-504: the whole store is written back from what the
\* request read, with its own profile set or deleted.
WriteStore(p) ==
    /\ req[p].pc = "writeStore"
    /\ profilesFile' = File(IF req[p].kind = "set"
                            THEN SetCreds(req[p].creds, p)
                            ELSE DelCreds(req[p].creds, p))
    /\ req' = [req EXCEPT ![p].pc = "readConfig"]
    /\ unsynced' = TRUE
    /\ UNCHANGED <<procVars, lockfile, configFile, localSync, workspace,
                   skills, r2Vars, envVars, gwVars, now, patchLog,
                   onboardArgs, syncResult, restart>>

\* api.ts 408-416 and 507-515: `cat openclaw.json || echo "{}"`, parsed.
ReadConfig(p) ==
    /\ req[p].pc = "readConfig"
    /\ req' = [req EXCEPT ![p].pc = "writeConfig",
                          ![p].doc = ReadDoc(configFile)]
    /\ UNCHANGED <<procVars, lockfile, localVars, r2Vars, envVars, gwVars,
                   now, unsynced, patchLog, onboardArgs, syncResult, restart>>

\* api.ts 418-441 and 518-525: the whole document is written back from what
\* the request read; a DELETE writes only when the document it read
\* references the profile.
WriteConfig(p) ==
    /\ req[p].pc = "writeConfig"
    /\ configFile' =
          IF req[p].kind = "set" THEN File(SetDoc(req[p].doc, p))
          ELSE IF InDoc(req[p].doc, p) THEN File(DelDoc(req[p].doc, p))
          ELSE configFile
    /\ req' = [req EXCEPT ![p].pc = "restart"]
    /\ unsynced' = TRUE
    /\ UNCHANGED <<procVars, lockfile, profilesFile, localSync, workspace,
                   skills, r2Vars, envVars, gwVars, now, patchLog,
                   onboardArgs, syncResult, restart>>

\* api.ts 443-461 and 527-545: the gateway process found is killed (a failed
\* kill is only logged) and the request answers 200; ensureGateway then runs
\* in the background.
KillGateway(p) ==
    /\ req[p].pc = "restart"
    /\ req' = [req EXCEPT ![p].pc = "done", ![p].status = 200]
    /\ \E killed \in BOOLEAN :
          /\ gw' = [j \in Procs |->
                       IF killed /\ gw[j] \in Alive THEN "dead" ELSE gw[j]]
          /\ gwExit' = [j \in Procs |->
                           IF killed /\ gw[j] \in Alive THEN MaxExit
                           ELSE gwExit[j]]
    /\ UNCHANGED <<procVars, lockfile, localVars, r2Vars, envVars, gwPort,
                   gwAuth, now, unsynced, patchLog, onboardArgs, syncResult,
                   restart>>

\* One step of the handler of a setup-token or provider-delete request.
Request(p) ==
    \/ \E k \in Kinds : ReadStore(p, k)
    \/ WriteStore(p)
    \/ ReadConfig(p)
    \/ WriteConfig(p)
    \/ KillGateway(p)

\* Faulty variant: the sync goes on whatever the check printed.
SyncAborts_never(seen) == FALSE

\* sync.ts 47-58: the sync is given up unless `test -f openclaw.json && echo
\* "ok"` printed ok; `seen` is whether it did.
SyncAborts(seen) == ~seen

\* sync.ts 75-89: the call's verdict is read from the marker the backup holds
\* once the command has ended: success when its text starts with a date.
SyncVerdict(marker, done) ==
    IF marker # NoFile /\ marker[1].kind = "iso"
    THEN [SyncOk EXCEPT !.done = done]
    ELSE [SyncError("Sync failed") EXCEPT !.done = done]

\* Faulty variant: the marker is written whatever became of the copies.
MarkerWritten_always(done) == TRUE

\* sync.ts 68: `date -Iseconds > .last-sync` is the last link of the && chain,
\* reached when all three rsync runs succeeded.
MarkerWritten(done) == done = 3

\* sync.ts 32-97, syncToR2. `mounted`: R2 is configured and mounted; `seen`:
\* the check printed ok, which it does only when openclaw.json exists;
\* `done`: how many of the three rsync --delete runs chained with &&
\* succeeded, the marker being written after the third.
SyncToR2 ==
    \E mounted, seen \in BOOLEAN, done \in 0..3 :
        /\ seen => configFile # NoFile
        /\ IF ~mounted
           THEN /\ syncResult' = SyncError("Failed to mount R2 storage")
                /\ UNCHANGED <<r2Vars, unsynced>>
           ELSE IF SyncAborts(seen)
           THEN /\ syncResult' = SyncError("Sync aborted: no config file found")
                /\ UNCHANGED <<r2Vars, unsynced>>
           ELSE /\ r2Config' = IF done >= 1 THEN configFile ELSE r2Config
                /\ r2Profiles' = IF done >= 1 THEN profilesFile ELSE r2Profiles
                /\ r2Inner' = IF done >= 1 THEN localSync ELSE r2Inner
                /\ r2Workspace' = IF done >= 2 THEN workspace ELSE r2Workspace
                /\ r2Skills' = IF done >= 3 THEN skills ELSE r2Skills
                /\ r2Sync' = IF MarkerWritten(done) THEN File(IsoMarker(now))
                                                     ELSE r2Sync
                /\ unsynced' = IF done = 3 THEN FALSE ELSE unsynced
                /\ syncResult' = SyncVerdict(r2Sync', done)
        /\ UNCHANGED <<procVars, lockfile, localVars, envVars, gwVars, now,
                       patchLog, onboardArgs, restart, req>>

\* api.ts 278-314, POST /api/admin/gateway/restart: the gateway process found
\* is killed, the handler waits 2 seconds and then has ensureGateway run the
\* start script. `old` is the gateway found (0 = none, nothing is running),
\* `by` the invocation ensureGateway starts, `stopped` whether the gateway
\* killed has stopped listening when the 2 seconds are over.
RestartGateway ==
    \E old \in Procs \cup {0}, by \in Procs, stopped \in BOOLEAN :
        /\ IF old = 0
           THEN \A j \in Procs : gw[j] \notin Alive /\ pc[j] \notin Running
           ELSE gw[old] \in Alive
        /\ by # old
        /\ pc[by] \in {"idle", "done", "killed"}
        /\ gw[by] \notin Alive
        /\ old = 0 => stopped
        /\ restart' = [old |-> old, by |-> by]
        /\ pc' = [pc EXCEPT ![by] = "probe"]
        /\ rc' = [rc EXCEPT ![by] = -1]
        /\ out' = [out EXCEPT ![by] = "none"]
        /\ tries' = [tries EXCEPT ![by] = 0]
        /\ trap' = [trap EXCEPT ![by] = FALSE]
        /\ tried' = [tried EXCEPT ![by] = {}]
        /\ restored' = [restored EXCEPT ![by] = {}]
        /\ warned' = [warned EXCEPT ![by] = {}]
        /\ onboarded' = [onboarded EXCEPT ![by] = FALSE]
        /\ gw' = [j \in Procs |->
                     IF j = by THEN "none"
                     ELSE IF j = old /\ stopped THEN "dead" ELSE gw[j]]
        /\ gwExit' = [j \in Procs |->
                         IF j = by THEN 0
                         ELSE IF j = old /\ stopped THEN MaxExit
                         ELSE gwExit[j]]
        /\ gwPort' = [gwPort EXCEPT ![by] = 0]
        /\ gwAuth' = [gwAuth EXCEPT ![by] = ""]
        /\ UNCHANGED <<lockfile, localVars, r2Vars, envVars, now, unsynced,
                       patchLog, onboardArgs, syncResult, req>>

\* A second passes.
Tick ==
    /\ now < MaxTime
    /\ now' = now + 1
    /\ UNCHANGED <<procVars, lockfile, localVars, r2Vars, envVars, gwVars,
                   unsynced, patchLog, logVars>>

\* ------------------------------------------------------------------- Init
InitProcs ==
    /\ pc = [i \in Procs |-> "idle"]
    /\ rc = [i \in Procs |-> -1]
    /\ out = [i \in Procs |-> "none"]
    /\ tries = [i \in Procs |-> 0]
    /\ trap = [i \in Procs |-> FALSE]
    /\ tried = [i \in Procs |-> {}]
    /\ restored = [i \in Procs |-> {}]
    /\ warned = [i \in Procs |-> {}]
    /\ onboarded = [i \in Procs |-> FALSE]
    /\ gw = [i \in Procs |-> "none"]
    /\ gwPort = [i \in Procs |-> 0]
    /\ gwAuth = [i \in Procs |-> ""]
    /\ gwExit = [i \in Procs |-> 0]

\* The backup store as syncToR2 leaves it: the marker is written after the
\* configuration tree, so a marker implies a configuration document. The
\* configuration tree carries the .last-sync the syncing container had in
\* /root/.openclaw, the marker of an earlier sync.
InitR2 ==
    /\ r2Sync \in MarkerFiles
    /\ r2Config \in {NoFile, File(BackupDoc)}
    /\ r2Sync # NoFile => r2Config # NoFile
    /\ r2Profiles \in {NoFile, File(Creds("backup-token", {}))}
    /\ r2Config = NoFile => r2Profiles = NoFile
    /\ r2Workspace \in {EmptyTree, BackupTree}
    /\ r2Skills \in {EmptyTree, BackupTree}
    /\ r2Inner \in {NoFile, File(IsoMarker(0))}
    /\ r2Inner # NoFile => /\ r2Config # NoFile
                           /\ r2Sync # NoFile
                           /\ Epoch(r2Inner[1]) < Epoch(r2Sync[1])

InitLocal ==
    /\ configFile \in {NoFile, File(EmptyDoc), File(UserDoc)}
    /\ profilesFile \in {NoFile, File(Creds("admin-token", {}))}
    /\ localSync \in MarkerFiles
    /\ workspace \in {EmptyTree, LocalTree}
    /\ skills = EmptyTree

\* The clock at 0, nothing changed by an admin, no patch run on its own.
InitAux ==
    /\ now = 0
    /\ unsynced = FALSE
    /\ patchLog = <<>>
    /\ onboardArgs = NoArgs
    /\ syncResult = NoResult
    /\ restart = NoRestart
    /\ req = [p \in ProfileIds |-> NoRequest]

InitEnv ==
    /\ gatewayToken \in {"", "gw-token"}
    /\ setupToken \in {"", "setup-token"}
    /\ patchEnv = NoPatchEnv

\* One container, any backup, any local state, one invocation at a time.
InitSolo ==
    /\ InitProcs
    /\ lockfile = StaleLock
    /\ InitR2
    /\ InitLocal
    /\ InitEnv
    /\ InitAux

\* A container whose backup store is empty, for the concurrent runs.
InitShared ==
    /\ InitProcs
    /\ r2Sync = NoFile
    /\ r2Config = NoFile
    /\ r2Profiles = NoFile
    /\ r2Workspace = EmptyTree
    /\ r2Skills = EmptyTree
    /\ r2Inner = NoFile
    /\ configFile \in {NoFile, File(UserDoc)}
    /\ profilesFile = NoFile
    /\ localSync = NoFile
    /\ workspace = EmptyTree
    /\ skills = EmptyTree
    /\ gatewayToken = "gw-token"
    /\ setupToken = "setup-token"
    /\ patchEnv = NoPatchEnv
    /\ InitAux

\* A new container (empty local state) whose backup holds a marker and a
\* configuration document, with the gateway token in the environment.
InitE2E ==
    /\ InitProcs
    /\ lockfile \in {NoLock, StaleLock}
    /\ r2Sync \in MarkerFiles \ {NoFile}
    /\ r2Config \in {File(BackupDoc), File(UserDoc), File(EmptyDoc)}
    /\ r2Profiles \in {NoFile, File(Creds("backup-token", {}))}
    /\ r2Workspace \in {EmptyTree, BackupTree}
    /\ r2Skills \in {EmptyTree, BackupTree}
    /\ r2Inner = NoFile
    /\ configFile = NoFile
    /\ profilesFile = NoFile
    /\ localSync = NoFile
    /\ workspace = EmptyTree
    /\ skills = EmptyTree
    /\ gatewayToken = "gw-token"
    /\ setupToken \in {"", "setup-token"}
    /\ patchEnv = NoPatchEnv
    /\ InitAux

\* Channel blocks as a backup may hold them: written by an earlier patch,
\* configured by the user, with or without a key OpenClaw no longer knows.
Obj(keys, vals) == [k \in keys |-> vals[k]]
SampleValues ==
    [botToken |-> "old-bot-token", token |-> "old-token",
     appToken |-> "old-app-token", enabled |-> TRUE, dmPolicy |-> "open",
     allowFrom |-> << <<"7">> >>, groups |-> "my-groups",
     guilds |-> "my-guilds", channels |-> "my-channels",
     legacyKey |-> "stale"]
TelegramBlocks ==
    {Obj(keys, SampleValues) :
        keys \in {{}, {"botToken", "enabled"},
                  {"botToken", "enabled", "groups", "legacyKey"},
                  {"dmPolicy", "groups"},
                  {"dmPolicy", "allowFrom", "legacyKey"}}}
    \cup {[botToken |-> "old-bot-token", enabled |-> TRUE,
           dmPolicy |-> "pairing", groups |-> "my-groups"]}
DiscordBlocks ==
    {Obj(keys, SampleValues) :
        keys \in {{"token", "enabled"}, {"guilds"}, {"guilds", "legacyKey"}}}
    \cup {[token |-> "old-token", enabled |-> TRUE, legacyKey |-> "stale",
           dm |-> [policy |-> "pairing"]],
          [guilds |-> "my-guilds", dm |-> [policy |-> "open"]],
          [guilds |-> "my-guilds",
           dm |-> [policy |-> "open", allowFrom |-> << <<"7">> >>]]}
SlackBlocks ==
    {Obj(keys, SampleValues) :
        keys \in {{"botToken", "appToken", "enabled"},
                  {"botToken", "appToken", "enabled", "channels", "legacyKey"}}}

\* channels of a document: each block absent (<<>>) or present (<<block>>).
Channels(t, d, s) ==
    LET opt == [telegram |-> t, discord |-> d, slack |-> s]
    IN  [ch \in {c \in DOMAIN opt : opt[c] # <<>>} |-> opt[ch][1]]
ChannelDocs ==
    {[base EXCEPT !.channels = Channels(t, d, s)] :
        base \in {EmptyDoc, UserDoc},
        t \in {<<>>} \cup {<<b>> : b \in TelegramBlocks},
        d \in {<<>>} \cup {<<b>> : b \in DiscordBlocks},
        s \in {<<>>} \cup {<<b>> : b \in SlackBlocks}}
ChannelEnvs ==
    {[NoPatchEnv EXCEPT !.telegramToken = tg[1], !.telegramDmPolicy = tg[2],
                        !.telegramAllowFrom = tg[3],
                        !.discordToken = dc[1], !.discordDmPolicy = dc[2],
                        !.slackBotToken = sl[1], !.slackAppToken = sl[2]] :
        tg \in {<<"", "", NoText>>, <<"", "allowlist", NoText>>} \cup
               ({"tg-token"} \X {"", "open", "allowlist"}
                             \X {NoText, <<"1", ",", "2">>}),
        dc \in {<<"", "">>, <<"", "open">>} \cup ({"dc-token"} \X {"", "open"}),
        sl \in {<<"", "">>, <<"sl-bot", "">>, <<"sl-bot", "sl-app">>}}

\* Documents and environments for the AI Gateway part of the patch.
StaleProvider ==
    [baseUrl |-> <<"gateway.ai.cloudflare.com", "old", "old", "openai">>,
     apiKey |-> "old-key", api |-> "openai-completions",
     models |-> << <<"gpt-4o">> >>]
ModelDocs ==
    {[base EXCEPT !.gwProviders = gp, !.primary = pm, !.provider = pv] :
        base \in {EmptyDoc, UserDoc},
        gp \in {EmptyBlock, [n \in {<<"openai">>} |-> StaleProvider]},
        pm \in {NoModel, Model(TRUE, <<"openai">>, <<"gpt-4o">>),
                Model(FALSE, <<"anthropic">>, <<"claude-sonnet-4-5">>)},
        pv \in BOOLEAN}
ModelEnvs ==
    {[NoPatchEnv EXCEPT !.cfModel = m, !.cfApiKey = k, !.cfAccountId = ids[1],
                        !.cfGatewayId = ids[2], !.accountId = a,
                        !.devMode = dev] :
        m \in {NoText, <<"openai", "/", "gpt-4o">>,
               <<"workers-ai", "/", "@cf", "/", "llama">>,
               <<"/", "gpt-4o">>, <<"gpt-4o">>},
        k \in {"", "cf-key"},
        ids \in {<<"", "">>, <<"acct", "">>, <<"acct", "gw">>},
        a \in {"", "cf-acct"},
        dev \in {"", "true", "false"}}

\* The patch script on its own: any document, or none, and any environment.
InitPatch ==
    /\ InitProcs
    /\ InitAux
    /\ lockfile = NoLock
    /\ r2Sync = NoFile
    /\ r2Config = NoFile
    /\ r2Profiles = NoFile
    /\ r2Workspace = EmptyTree
    /\ r2Skills = EmptyTree
    /\ r2Inner = NoFile
    /\ profilesFile = NoFile
    /\ localSync = NoFile
    /\ workspace = EmptyTree
    /\ skills = EmptyTree
    /\ setupToken = ""
    /\ gatewayToken \in {"", "gw-token"}
    /\ \/ /\ configFile \in {NoFile} \cup {File(d) : d \in ChannelDocs}
          /\ patchEnv \in ChannelEnvs
       \/ /\ configFile \in {NoFile} \cup {File(d) : d \in ModelDocs}
          /\ patchEnv \in ModelEnvs

\* Every combination of the five variables AUTH_ARGS is built from.
OnboardEnvs ==
    {[NoPatchEnv EXCEPT !.cfApiKey = k, !.cfAccountId = a, !.cfGatewayId = g,
                        !.anthropicKey = an, !.openaiKey = o] :
         k \in {"", "cf-key"}, a \in {"", "acct"}, g \in {"", "gw-id"},
         an \in {"", "sk-ant"}, o \in {"", "sk-oai"}}

\* A container with or without a configuration document and a backup, under
\* every combination of provider credentials.
InitOnboard ==
    /\ InitProcs
    /\ lockfile \in {NoLock, StaleLock}
    /\ r2Sync \in {NoFile, File(IsoMarker(0))}
    /\ r2Config = IF r2Sync = NoFile THEN NoFile ELSE File(BackupDoc)
    /\ r2Profiles = NoFile
    /\ r2Workspace = EmptyTree
    /\ r2Skills = EmptyTree
    /\ r2Inner = NoFile
    /\ configFile \in {NoFile, File(UserDoc)}
    /\ profilesFile = NoFile
    /\ localSync = NoFile
    /\ workspace = EmptyTree
    /\ skills = EmptyTree
    /\ gatewayToken = "gw-token"
    /\ setupToken = ""
    /\ patchEnv \in OnboardEnvs
    /\ InitAux

\* A container with any credential store, the document referencing the
\* profiles stored, an empty backup, with or without CLAUDE_SETUP_TOKEN.
InitRace ==
    /\ InitProcs
    /\ InitAux
    /\ lockfile \in {NoLock, StaleLock}
    /\ r2Sync = NoFile
    /\ r2Config = NoFile
    /\ r2Profiles = NoFile
    /\ r2Workspace = EmptyTree
    /\ r2Skills = EmptyTree
    /\ r2Inner = NoFile
    /\ profilesFile \in {File(Creds(t, o)) :
                            t \in {"", "admin-token"},
                            o \in SUBSET (ProfileIds \ {"anthropic:default"})}
    /\ configFile = File([OnboardDoc EXCEPT
                             !.profile = profilesFile[1].token # "",
                             !.provider = profilesFile[1].token # "",
                             !.others = profilesFile[1].others])
    /\ localSync = NoFile
    /\ workspace = EmptyTree
    /\ skills = EmptyTree
    /\ gatewayToken = "gw-token"
    /\ setupToken \in {"", "setup-token"}
    /\ patchEnv = NoPatchEnv

Init == InitShared /\ lockfile \in {NoLock, StaleLock}
InitFresh == InitShared /\ lockfile = NoLock
InitStale == InitShared /\ lockfile = StaleLock

\* ------------------------------------------------------------------- Next
Script(i) ==
    \/ Start(i)
    \/ Probe(i)
    \/ FirstMkdir(i)
    \/ RemoveStale(i)
    \/ RetryMkdir(i)
    \/ RestoreConfig(i)
    \/ RestoreWorkspace(i)
    \/ RestoreSkills(i)
    \/ Onboard(i)
    \/ Patch(i)
    \/ Inject(i)
    \/ Launch(i)
    \/ WaitGateway(i)
    \/ GatewayListen(i)
    \/ GatewayExit(i)

\* The commands of the script itself, from the probe to the launch.
Step(i) ==
    \/ Probe(i)
    \/ FirstMkdir(i)
    \/ RemoveStale(i)
    \/ RetryMkdir(i)
    \/ RestoreConfig(i)
    \/ RestoreWorkspace(i)
    \/ RestoreSkills(i)
    \/ Onboard(i)
    \/ Patch(i)
    \/ Inject(i)
    \/ Launch(i)

Next == \E i \in Procs : Script(i) \/ ForceKill(i)
NextNoKill == \E i \in Procs : Script(i)
NextSolo == Script(1)

\* One invocation at a time, which may be killed at any point.
NextQuiet == Script(1) \/ ForceKill(1)

\* One invocation at a time, with the admin endpoints and the backup sync.
NextAdmin == Script(1) \/ AdminSetToken \/ SyncToR2 \/ Tick
NextSync == SyncToR2 \/ Tick

\* One invocation at a time, and the admin requests step by step.
NextRace == Script(1) \/ \E p \in ProfileIds : Request(p)

\* An invocation under way, and the gateway it started.
Run(i) == Step(i) \/ WaitGateway(i) \/ GatewayListen(i) \/ GatewayExit(i)

\* The first boot, then restarts through the admin endpoint only.
NextRestart ==
    \/ pc[1] = "idle" /\ Start(1)
    \/ RestartGateway
    \/ \E i \in Procs : Run(i)

Spec == Init /\ [][Next]_vars
SpecFresh == InitFresh /\ [][NextNoKill]_vars
SpecStale == InitStale /\ [][NextNoKill]_vars
SpecSolo == InitSolo /\ [][NextSolo]_vars
SpecE2E == InitE2E /\ [][NextSolo]_vars
SpecPatch == InitPatch /\ [][RunPatch]_vars
SpecOnboard == InitOnboard /\ [][NextSolo]_vars
SpecSync == InitSolo /\ [][NextSync]_vars
SpecAdmin == Init /\ [][NextAdmin]_vars
SpecRestart == Init /\ [][NextRestart]_vars
SpecRace == InitRace /\ [][NextRace]_vars
\* A running script goes on to its next command unless it is killed.
SpecQuiet == Init /\ [][NextQuiet]_vars /\ WF_vars(Step(1))
\* ----------------------------------------------------------------- claims
\* Gateway children that are running (started and not yet exited).
GatewaysAlive == {i \in Procs : gw[i] \in Alive}

\* A gateway is accepting connections.
GatewayUp == \E j \in Procs : gw[j] = "listening"

\* Invocation i holds the lock it acquired and is bootstrapping or
\* supervising its running gateway.
Holding(i) ==
    /\ trap[i]
    /\ \/ pc[i] \in BootSteps
       \/ pc[i] = "wait" /\ gw[i] \in Alive

\* C1: against a fresh state (no lock directory, no gateway, no kill), the
\* concurrent invocations start at most one gateway: never two gateway
\* processes launched by the script are running at once.
C1_AtMostOneLaunched == Cardinality(GatewaysAlive) <= 1

\* C2: at most one invocation at a time is past lock acquisition and in the
\* restore, onboarding, patch, injection or launch step.
C2_MutualExclusion == Cardinality({i \in Procs : pc[i] \in BootSteps}) <= 1

\* C3: started with a stale lock directory and no gateway listening, two
\* simultaneous invocations never both acquire the lock and proceed: the one
\* that does not acquire it ends with the lock-acquisition error.
C3_StaleLockRecovery ==
    \A i, j \in Procs : i # j => ~(Holding(i) /\ Holding(j))

C5_LivenessBeforeLock ==
    [][\A i \in Procs :
          (pc[i] = "probe" /\ pc'[i] # "probe" /\ pc'[i] # "killed" /\ GatewayUp)
          => /\ pc'[i] = "done"
             /\ rc'[i] = 0
             /\ out'[i] = "already"
             /\ UNCHANGED <<lockfile, localVars, gwVars>>]_vars

\* C5 witness: an invocation reported "already running" while the lock
\* directory of a killed invocation was in place, and left it there.
C5_Witness ==
    \E i, j \in Procs :
        /\ pc[i] = "done" /\ out[i] = "already"
        /\ pc[j] = "killed" /\ lockfile = j

\* C6: an invocation makes at most two mkdir attempts; the second follows
\* exactly one forced removal, and when it fails the invocation ends with
\* status 1 and the lock-acquisition error.
C6_TwoAttempts ==
    \A i \in Procs :
        /\ tries[i] <= 2
        /\ pc[i] \in {"rm", "lock2"} => tries[i] = 1
        /\ out[i] = "lockfail" =>
              tries[i] = 2 /\ rc[i] = 1 /\ pc[i] = "done" /\ ~trap[i]

\* C6 witness: an invocation failed its retry and ended with the error.
C6_Witness == \E i \in Procs : out[i] = "lockfail" /\ tries[i] = 2

C8_LockReleasedOnExit ==
    [][\A i \in Procs :
          (trap[i] /\ pc[i] # "done" /\ pc'[i] = "done") => lockfile' # i]_vars

\* C8 witness: one invocation ended through a failing step and one after
\* its gateway exited, and no lock directory is left.
C8_Witness ==
    \E i, j \in Procs :
        /\ pc[i] = "done" /\ out[i] = "stepfail" /\ trap[i]
        /\ pc[j] = "done" /\ out[j] = "gateway" /\ trap[j]
        /\ lockfile = NoLock

\* Time order of two markers, a missing marker being older than any other.
Rank(f) == IF f = NoFile THEN -1 ELSE Epoch(f[1])

\* C9: the configuration restore is started if and only if the backup marker
\* is strictly newer than the local marker (a missing marker counting as
\* minus infinity); a workspace or skills restore is started only then, and
\* always then when the backup holds that tree.
C9_RestoreIffNewer ==
    [][\A i \in Procs :
          /\ (pc[i] = "restoreCfg" /\ pc'[i] = "restoreWs")
             => (("config" \in tried'[i]) <=> Rank(r2Sync) > Rank(localSync))
          /\ (pc[i] = "restoreWs" /\ pc'[i] = "restoreSk")
             => (("workspace" \in tried'[i]) <=>
                    (r2Workspace # EmptyTree /\ Rank(r2Sync) > Rank(localSync)))
          /\ (pc[i] = "restoreSk" /\ pc'[i] = "onboard")
             => (("skills" \in tried'[i]) <=>
                    (r2Skills # EmptyTree /\ Rank(r2Sync) > Rank(localSync)))]_vars

\* C9 witness: a configuration restore was started against a present, older
\* local marker (the copy failed, so both markers are still to be seen).
C9_Witness ==
    \E i \in Procs :
        /\ "config" \in tried[i] /\ "config" \notin restored[i]
        /\ localSync # NoFile /\ r2Sync # NoFile
        /\ Epoch(r2Sync[1]) > Epoch(localSync[1])

\* C10: once the restore steps of an invocation are over, if the
\* configuration was restored (the backup marker was strictly newer when
\* the invocation began), the backup holds workspace and skills trees and
\* no copy failed, then all three trees were copied.
C10_AllTreesRestored ==
    \A i \in Procs :
        (/\ pc[i] \in {"onboard", "patch", "inject", "launch", "wait"}
         /\ "config" \in restored[i]
         /\ tried[i] = restored[i]
         /\ r2Workspace # EmptyTree
         /\ r2Skills # EmptyTree)
        => restored[i] = Trees

RestoreSteps == {"restoreCfg", "restoreWs", "restoreSk"}

\* The step that follows a restore step in the script.
AfterRestore(p) ==
    CASE p = "restoreCfg" -> "restoreWs"
      [] p = "restoreWs" -> "restoreSk"
      [] OTHER -> "onboard"

\* C11: a restore step never ends the invocation: after the copy, failed or
\* timed out or not, the script is at the next step with no exit status;
\* every copy that was started and did not succeed has its WARNING line.
C11_RestoreFailureNotFatal ==
    [][\A i \in Procs :
          (pc[i] \in RestoreSteps /\ pc'[i] # pc[i] /\ pc'[i] # "killed")
          => /\ pc'[i] = AfterRestore(pc[i])
             /\ rc'[i] = -1
             /\ warned'[i] = tried'[i] \ restored'[i]]_vars

\* C11 witness: an invocation whose configuration copy failed went through
\* onboarding, patch, injection and launch, and its gateway listens.
C11_Witness ==
    \E i \in Procs :
        /\ "config" \in warned[i]
        /\ pc[i] = "wait"
        /\ gw[i] = "listening"

\* C12: onboarding runs if and only if there is no local configuration
\* document when the onboarding step is reached: an empty document or one
\* just restored from the backup means no onboarding.
C12_OnboardIffNoConfig ==
    [][\A i \in Procs :
          (pc[i] = "onboard" /\ pc'[i] # "onboard" /\ pc'[i] # "killed")
          => (onboarded'[i] <=> configFile = NoFile)]_vars

\* C12 witness: onboarding was skipped on a document the restore had just
\* copied, and on an empty document.
C12_Witness ==
    \E i \in Procs :
        /\ pc[i] \in {"patch", "inject", "launch", "wait"}
        /\ ~onboarded[i]
        /\ \/ "config" \in restored[i]
           \/ configFile = File(EmptyDoc)

\* C13 as stated: an invocation that ended without having launched a
\* gateway, and not because one was already listening, ended with the
\* lock-acquisition error.
C13_OnlyLockFatal ==
    \A i \in Procs :
        (pc[i] = "done" /\ gw[i] = "none" /\ out[i] # "already")
        => out[i] = "lockfail"

\* C13 amended: a failing onboarding, patch or injection command ends the
\* invocation under set -e with a non-zero status, no gateway launched and
\* the lock released; an invocation that ended without a gateway ended for
\* one of three reasons: already running, lock error or failing command.
C13_FailingStepFatal ==
    \A i \in Procs :
        /\ out[i] = "stepfail"
           => /\ pc[i] = "done"
              /\ rc[i] # 0
              /\ gw[i] = "none"
              /\ trap[i]
              /\ lockfile # i
        /\ (pc[i] = "done" /\ gw[i] = "none")
           => out[i] \in {"already", "lockfail", "stepfail"}

\* C13 witness: an invocation whose restore copy failed went on, and ended
\* when its patch or injection command failed.
C13_Witness ==
    \E i \in Procs :
        /\ pc[i] = "done" /\ out[i] = "stepfail"
        /\ warned[i] # {}
        /\ ~onboarded[i]

AlreadyRunning(i) ==
    pc[i] = "done" /\ out[i] = "already" /\ rc[i] = 0 /\ ~trap[i]
       /\ gw[i] = "none"
Started(i) ==
    /\ trap[i]
    /\ gw[i] # "none"
    /\ \/ pc[i] = "wait" /\ out[i] = "none"
       \/ pc[i] = "done" /\ out[i] = "gateway" /\ gw[i] = "dead"
             /\ rc[i] = gwExit[i]
LockError(i) ==
    pc[i] = "done" /\ out[i] = "lockfail" /\ rc[i] = 1 /\ ~trap[i]
       /\ gw[i] = "none"
CommandFailed(i) ==
    pc[i] = "done" /\ out[i] = "stepfail" /\ rc[i] # 0 /\ trap[i]
       /\ gw[i] = "none"

StepOrder(p) ==
    CASE p = "probe" -> 0
      [] p = "lock1" -> 1
      [] p = "rm" -> 2
      [] p = "lock2" -> 3
      [] p = "restoreCfg" -> 4
      [] p = "restoreWs" -> 5
      [] p = "restoreSk" -> 6
      [] p = "onboard" -> 7
      [] p = "patch" -> 8
      [] p = "inject" -> 9
      [] p = "launch" -> 10
      [] OTHER -> 11

\* C17: within one invocation the steps run in the order restore, onboard,
\* patch, inject, launch, each at most once: a step is followed by the
\* next one or by the end of the invocation, and an invocation that ended
\* runs nothing more (only a new invocation starts again, at the probe).
C17_StepsInOrder ==
    [][\A i \in Procs :
          /\ (pc[i] \in BootSteps /\ pc'[i] # pc[i])
             => \/ pc'[i] \in {"done", "killed"}
                \/ StepOrder(pc'[i]) = StepOrder(pc[i]) + 1
          /\ (pc[i] \in Running /\ pc'[i] \in Running /\ pc'[i] # pc[i])
             => StepOrder(pc'[i]) > StepOrder(pc[i])
          /\ (pc[i] = "done" /\ pc'[i] # "done") => pc'[i] = "probe"]_vars

\* C17 witness: an invocation ran onboarding, patch and injection and
\* launched its gateway; another ended through a failing command.
C17_Witness ==
    \E i, j \in Procs :
        /\ pc[i] = "wait" /\ onboarded[i] /\ profilesFile # NoFile
        /\ pc[j] = "done" /\ out[j] = "stepfail"

\* C15 as stated: started with no gateway listening and no other invocation
\* in progress, an invocation that ended had launched its gateway (or found
\* the gateway of a killed run listening).
C15_AlwaysLaunches ==
    pc[1] = "done" => out[1] \in {"already", "gateway"}

\* C15 amended: with no other invocation in progress, lock directory present
\* or not, an invocation never ends with the lock-acquisition error; once at
\* the first mkdir it acquires the lock, and it goes on to launch a gateway
\* unless one of its commands fails or it is killed.
C15_NeverBlockedByLock ==
    /\ [](out[1] # "lockfail")
    /\ (pc[1] = "lock1") ~> (trap[1] \/ pc[1] = "killed")
    /\ (pc[1] = "lock1") ~> \/ pc[1] = "wait"
                            \/ pc[1] = "killed"
                            \/ pc[1] = "done" /\ out[1] = "stepfail"

\* C15 witness: an invocation found the directory of a killed run, removed
\* it, acquired the lock at its second mkdir and launched a gateway.
C15_Witness ==
    /\ pc[1] = "wait"
    /\ tries[1] = 2
    /\ lockfile = 1
    /\ gw[1] \in Alive

\* C18: from an empty local state, a backup holding a marker and a
\* configuration document, and the auth token in the environment: the
\* restore is started; when its copy succeeds the document at the patch
\* step is the backup's and onboarding was skipped; after the patch the
\* document holds port 18789 and the token, no gateway being launched yet;
\* the gateway is then launched on port 18789 with the token.
C18_EndToEnd ==
    /\ (pc[1] \in (BootSteps \cup {"wait"}) \ {"restoreCfg"} /\ localSync = NoFile)
       => "config" \in tried[1]
    /\ "config" \in restored[1] =>
          /\ localSync = r2Sync
          /\ ~onboarded[1]
          /\ pc[1] \in {"restoreWs", "restoreSk", "onboard", "patch"}
                => configFile = r2Config /\ gw[1] = "none"
          /\ pc[1] \in {"inject", "launch", "wait"}
                => /\ configFile # NoFile
                   /\ configFile[1].port = GATEWAY_PORT
                   /\ configFile[1].token = gatewayToken
                   /\ configFile[1].rest = r2Config[1].rest
          /\ pc[1] \in {"inject", "launch"} => gw[1] = "none"
          /\ pc[1] = "wait"
                => /\ gw[1] # "none"
                   /\ gwPort[1] = GATEWAY_PORT
                   /\ gwAuth[1] = gatewayToken
                   /\ gwAuth[1] # ""

\* C18 witness: the backup document had another port and another token;
\* it was restored, and the gateway launched with the token listens.
C18_Witness ==
    /\ r2Config = File(UserDoc)
    /\ "config" \in restored[1]
    /\ ~onboarded[1]
    /\ pc[1] = "wait"
    /\ gw[1] = "listening"
    /\ gwAuth[1] = "gw-token"

\* The keys a channel block may hold.
ValidKeys(ch) ==
    CASE ch = "telegram" -> VALID_TELEGRAM_KEYS
      [] ch = "discord" -> VALID_DISCORD_KEYS
      [] OTHER -> VALID_SLACK_KEYS

\* The keys of the Telegram block that the patch itself writes.
TelegramWritten == {"botToken", "enabled", "dmPolicy", "allowFrom"}

\* C19: with the environment fixed, every run of the patch after the first
\* writes the document the first one wrote; and a run with the Telegram
\* token set, on a Telegram block that holds a key outside the allow-list,
\* writes a block without that key, with every valid key, and with the
\* value of every valid key the patch does not set itself.
C19_PatchIdempotent ==
    \A k \in 1..Len(patchLog) :
        LET b == ChannelBlock(patchLog[k].before, "telegram")
            a == ChannelBlock(patchLog[k].after, "telegram")
        IN  /\ patchLog[k].after = patchLog[1].after
            /\ k > 1 => patchLog[k].before = patchLog[k].after
            /\ patchEnv.telegramToken # "" =>
                  /\ DOMAIN a \subseteq VALID_TELEGRAM_KEYS
                  /\ DOMAIN b \cap VALID_TELEGRAM_KEYS \subseteq DOMAIN a
                  /\ \A key \in (DOMAIN b \cap VALID_TELEGRAM_KEYS)
                                   \ TelegramWritten : a[key] = b[key]

\* C19 witness: the patch ran twice on a Telegram block written by an
\* earlier patch to which a stale key had been added.
C19_Witness ==
    /\ Len(patchLog) >= 2
    /\ patchEnv.telegramToken # ""
    /\ LET b == ChannelBlock(patchLog[1].before, "telegram")
       IN  {"botToken", "enabled", "groups", "legacyKey"} \subseteq DOMAIN b

\* C20: after a run of the patch no channel block of the document holds a
\* key outside the allow-list of its channel.
C20_OnlyValidKeys ==
    \A k \in 1..Len(patchLog) :
        \A ch \in DOMAIN patchLog[k].after.channels :
            DOMAIN patchLog[k].after.channels[ch] \subseteq ValidKeys(ch)

\* C14: a restore step never changes the local configuration document or
\* the credential store while they hold a change made by an admin after
\* the most recent sync.
C14_LocalChangesSurvive ==
    [][\A i \in Procs :
          (unsynced /\ pc[i] \in RestoreSteps /\ pc'[i] # pc[i])
          => UNCHANGED <<configFile, profilesFile>>]_vars

\* The credentials of a channel are in the environment.
ChannelInEnv(ch, env) ==
    CASE ch = "telegram" -> env.telegramToken # ""
      [] ch = "discord" -> env.discordToken # ""
      [] OTHER -> env.slackBotToken # "" /\ env.slackAppToken # ""

\* The keys of a channel block that the patch sets from the environment.
EnvWritten(ch, env) ==
    CASE ch = "telegram" ->
            {"botToken", "enabled"}
            \cup (IF env.telegramDmPolicy # "" THEN {"dmPolicy"} ELSE {})
            \cup (IF env.telegramAllowFrom # NoText THEN {"allowFrom"} ELSE {})
      [] ch = "discord" -> {"token", "enabled"}
      [] OTHER -> {"botToken", "appToken", "enabled"}

\* C21: for a channel whose credentials are in the environment, every
\* persisted field whose key is in the allow-list and is not set from the
\* environment has the same value after a run of the patch as before it
\* (for the dm object of Discord: every persisted field of it but a policy
\* given by DISCORD_DM_POLICY).
C21_MergePreserves ==
    \A k \in 1..Len(patchLog) :
        \A ch \in DOMAIN patchLog[k].before.channels :
            LET b == patchLog[k].before.channels[ch]
                a == ChannelBlock(patchLog[k].after, ch)
            IN  ChannelInEnv(ch, patchEnv) =>
                   \A key \in (DOMAIN b \cap ValidKeys(ch))
                                 \ EnvWritten(ch, patchEnv) :
                       /\ Has(a, key)
                       /\ IF ch = "discord" /\ key = "dm"
                          THEN \A sub \in DOMAIN b[key] :
                                  (sub = "policy" => patchEnv.discordDmPolicy = "")
                                  => /\ Has(a[key], sub)
                                     /\ a[key][sub] = b[key][sub]
                          ELSE a[key] = b[key]

\* C21 witness: the patch ran with the Telegram and Discord tokens set and
\* no policy in the environment, on blocks that held the user's groups, an
\* open DM policy and a DM allow-list.
C21_Witness ==
    /\ Len(patchLog) >= 1
    /\ patchEnv.telegramToken # "" /\ patchEnv.telegramDmPolicy = ""
    /\ patchEnv.discordToken # "" /\ patchEnv.discordDmPolicy = ""
    /\ LET t == ChannelBlock(patchLog[1].before, "telegram")
           d == ChannelBlock(patchLog[1].before, "discord")
       IN  /\ {"dmPolicy", "groups"} \subseteq DOMAIN t
           /\ t["dmPolicy"] = "open"
           /\ Has(d, "dm") /\ Has(d["dm"], "allowFrom")

\* C22: after a run of the patch, a default model that names an AI Gateway
\* provider (prefix cf-ai-gw-) names one whose entry is in the document,
\* and the AI Gateway API key is in the environment.
C22_NoStalePointer ==
    \A k \in 1..Len(patchLog) :
        LET d == patchLog[k].after
        IN  (d.primary.set /\ d.primary.gw)
            => /\ patchEnv.cfApiKey # ""
               /\ Has(d.gwProviders, d.primary.provider)

\* The three provider credentials of the onboarding step, in the environment.
GatewayProxyCred ==
    patchEnv.cfApiKey # "" /\ patchEnv.cfAccountId # ""
        /\ patchEnv.cfGatewayId # ""
PrimaryCred == patchEnv.anthropicKey # ""
SecondaryCred == patchEnv.openaiKey # ""

\* C23: when onboarding runs it is given the first available credential in
\* the order gateway proxy, primary (Anthropic) key, secondary (OpenAI) key;
\* in particular the gateway proxy when all three are present, and no
\* credential when none is.
C23_CredentialPriority ==
    \A i \in Procs :
        onboarded[i] =>
            /\ GatewayProxyCred => onboardArgs = "cloudflare-ai-gateway-api-key"
            /\ (~GatewayProxyCred /\ PrimaryCred) => onboardArgs = "apiKey"
            /\ (~GatewayProxyCred /\ ~PrimaryCred /\ SecondaryCred)
                   => onboardArgs = "openai-api-key"
            /\ (~GatewayProxyCred /\ ~PrimaryCred /\ ~SecondaryCred)
                   => onboardArgs = NoArgs

C23_Witness ==
    /\ onboarded[1]
    /\ GatewayProxyCred /\ PrimaryCred /\ SecondaryCred
    /\ onboardArgs = "cloudflare-ai-gateway-api-key"
    /\ configFile = File(OnboardDoc) \/ pc[1] = "done"

\* The credential store holds a token for anthropic:default.
TokenPersisted == profilesFile # NoFile /\ profilesFile[1].token # ""

C25_ExitCodeIsGateways ==
    [][\A i \in Procs :
          (pc[i] = "wait" /\ pc'[i] = "done")
              => /\ gw[i] = "dead"
                 /\ rc'[i] = gwExit[i]
                 /\ rc'[i] \in ExitCodes]_vars

C25_Witness ==
    /\ pc[1] = "done"
    /\ out[1] = "gateway"
    /\ gwExit[1] # 0
    /\ rc[1] = gwExit[1]

\* C26: the gateway is started with a token exactly when
\* OPENCLAW_GATEWAY_TOKEN is non-empty, and the token it is started with is
\* then the one the configuration document holds after the patch.
C26_LaunchTokenMatchesConfig ==
    [][\A i \in Procs :
          (pc[i] = "launch" /\ pc'[i] = "wait")
              => /\ gwAuth'[i] # "" <=> gatewayToken # ""
                 /\ gwAuth'[i] # ""
                       => /\ configFile # NoFile
                          /\ configFile[1].token = gwAuth'[i]]_vars

C26_Witness ==
    /\ pc[1] = "wait"
    /\ gwAuth[1] = "gw-token"
    /\ configFile # NoFile
    /\ configFile[1].token = "gw-token"

\* C27: no step of an invocation, and no step of the gateway it starts,
\* creates, changes or deletes anything in the backup store, the marker
\* included; a step that changes the backup moves no invocation and changes
\* nothing in the local state.
C27_BackupReadOnly ==
    [][/\ (pc' # pc \/ gw' # gw) => UNCHANGED r2Vars
       /\ r2Vars' # r2Vars => UNCHANGED <<procVars, localVars, gwVars>>]_vars

C27_Witness ==
    /\ pc[1] = "done"
    /\ "config" \in restored[1]
    /\ r2Sync # NoFile
    /\ r2Config # NoFile

\* C28: a call of syncToR2 made while openclaw.json does not exist, or while
\* its existence could not be verified, returns failure and leaves every
\* tree of the backup and the marker as they were.
C28_NoSyncWithoutConfig ==
    [][(now' = now /\ configFile = NoFile)
          => /\ ~syncResult'.success
             /\ UNCHANGED r2Vars]_vars

C28_Witness ==
    /\ configFile = NoFile
    /\ r2Config # NoFile
    /\ r2Workspace # EmptyTree
    /\ r2Sync # NoFile
    /\ syncResult = SyncError("Sync aborted: no config file found")

\* C30: syncToR2 returns success only when the command of that same call
\* ran to its end and wrote the marker; a marker left by an earlier sync does
\* not turn a failed copy into a success.
C30_SuccessMeansSynced ==
    syncResult.success
        => /\ syncResult.done = 3
           /\ r2Sync # NoFile

\* C29: a restart replaces the gateway: the invocation the restart handler
\* starts never ends as "already running" on account of the very gateway the
\* handler killed, however long that gateway takes to stop listening.
C29_RestartStartsNew ==
    [][\A i \in Procs :
          (restart.by = i /\ pc[i] = "probe" /\ pc'[i] = "done")
              => \E j \in Procs \ {restart.old} : gw[j] = "listening"]_vars

\* C31: syncToR2 writes the backup marker only after the configuration, the
\* workspace and the skills have been copied, in that order; a call one of
\* whose copies failed leaves the marker as it was.
C31_MarkerAfterCopies ==
    [][now' = now
          => /\ r2Sync' # r2Sync
                   => /\ r2Config' = configFile
                      /\ r2Profiles' = profilesFile
                      /\ r2Workspace' = workspace
                      /\ r2Skills' = skills
             /\ r2Skills' # r2Skills => r2Workspace' = workspace
             /\ r2Workspace' # r2Workspace => r2Config' = configFile
             /\ syncResult'.done < 3 => r2Sync' = r2Sync]_vars

\* A call whose workspace copy failed: the configuration is in the backup,
\* the marker is the one of the sync before.
C31_Witness ==
    /\ syncResult.done = 1
    /\ r2Config = configFile
    /\ r2Workspace # workspace
    /\ r2Sync = File(IsoMarker(0))
    /\ now > 0

\* The configuration restore of invocation i ends in this step.
ConfigStepEnds(i) == pc[i] = "restoreCfg" /\ pc'[i] = "restoreWs"
ConfigCopyFailed(i) == "config" \in tried'[i] \ restored'[i]

Unparseable(f) == f # NoFile /\ f[1].kind # "iso"
ValidMarker(f) == f # NoFile /\ f[1].kind = "iso"

\* C33: a marker that is present but is no date counts as epoch zero: with
\* such a local marker every valid backup marker is newer and the restore
\* is started; such a backup marker never starts a restore over a local
\* marker that is present, valid or not.
C33_UnparseableIsEpochZero ==
    [][\A i \in Procs :
          /\ ConfigStepEnds(i)
                => /\ (Unparseable(localSync) /\ ValidMarker(r2Sync))
                         => "config" \in tried'[i]
                   /\ (Unparseable(r2Sync) /\ localSync # NoFile)
                         => "config" \notin tried'[i]
          /\ (pc[i] = "restoreWs" /\ pc'[i] = "restoreSk")
                => /\ (Unparseable(localSync) /\ ValidMarker(r2Sync)
                          /\ r2Workspace # EmptyTree)
                         => "workspace" \in tried'[i]
                   /\ (Unparseable(r2Sync) /\ localSync # NoFile)
                         => "workspace" \notin tried'[i]]_vars


\* C34: the invocation that launched a gateway holds the lock for as long as
\* that gateway lives, and once it has ended after the gateway's exit the
\* lock directory is gone, so that the next start takes the lock at its
\* first attempt.
C34_LockKeptWhileGatewayLives ==
    \A i \in Procs :
        /\ (pc[i] = "wait" /\ gw[i] \in Alive) => lockfile = i
        /\ (pc[i] = "done" /\ out[i] = "gateway"
               /\ \A j \in Procs \ {i} : pc[j] \notin Running)
              => lockfile = NoLock

\* C35: the lock directory created by an invocation that is still running
\* is removed only by that invocation itself: no step of another invocation,
\* its forced removal and its exit cleanup included, takes it away.
C35_LockOwnership ==
    [][\A i \in Procs :
          (lockfile = i /\ pc[i] \in Running /\ lockfile' # i)
              => pc'[i] # pc[i]]_vars

\* C36: when the patch step of an invocation has completed, the document
\* holds gateway port 18789 and gateway mode local whatever it held before,
\* and the gateway is then launched on the port the document holds, which is
\* the port the liveness probe asks.
C36_PortAlwaysPatched ==
    [][\A i \in Procs :
          /\ (pc[i] = "patch" /\ pc'[i] = "inject")
                => /\ configFile' # NoFile
                   /\ configFile'[1].port = GATEWAY_PORT
                   /\ configFile'[1].mode = "local"
          /\ (pc[i] = "launch" /\ pc'[i] = "wait")
                => /\ configFile # NoFile
                   /\ gwPort'[i] = configFile[1].port
                   /\ gwPort'[i] = GATEWAY_PORT]_vars

\* The document an operator had set to another port and mode, patched.
C36_Witness ==
    /\ pc[1] = "wait"
    /\ configFile # NoFile
    /\ configFile[1].rest = UserDoc.rest
    /\ configFile[1].port = GATEWAY_PORT /\ UserDoc.port # GATEWAY_PORT
    /\ configFile[1].mode = "local" /\ UserDoc.mode # "local"
    /\ gwPort[1] = GATEWAY_PORT

\* The DM policy of a channel block, "" when it has none, the policy the
\* environment gives for the channel, and whether the block holds allowFrom.
PolicyOf(b, ch) ==
    IF ch = "telegram"
    THEN IF Has(b, "dmPolicy") THEN b["dmPolicy"] ELSE ""
    ELSE IF Has(b, "dm") /\ Has(b["dm"], "policy") THEN b["dm"]["policy"]
         ELSE ""
EnvPolicy(env, ch) ==
    IF ch = "telegram" THEN env.telegramDmPolicy ELSE env.discordDmPolicy
HasAllowFrom(b, ch) ==
    IF ch = "telegram" THEN Has(b, "allowFrom")
    ELSE Has(b, "dm") /\ Has(b["dm"], "allowFrom")

\* C37: after a run of the patch the DM policy of the telegram and discord
\* blocks is the one the environment gives, else the persisted one, else
\* "pairing"; and a block whose policy is "open" holds an allowFrom list.
C37_DmPolicyPrecedence ==
    \A k \in 1..Len(patchLog) :
        \A ch \in {"telegram", "discord"} :
            LET b == ChannelBlock(patchLog[k].before, ch)
                a == ChannelBlock(patchLog[k].after, ch)
                e == EnvPolicy(patchEnv, ch)
            IN  /\ e # "" => PolicyOf(a, ch) = e
                /\ (e = "" /\ PolicyOf(b, ch) # "")
                      => PolicyOf(a, ch) = PolicyOf(b, ch)
                /\ (e = "" /\ PolicyOf(b, ch) = ""
                       /\ Has(patchLog[k].after.channels, ch))
                      => PolicyOf(a, ch) = "pairing"
                /\ PolicyOf(a, ch) = "open" => HasAllowFrom(a, ch)

\* The request for profile p has been answered with success.
Served(p) == req[p].pc = "done" /\ req[p].status = 200

\* The credential store and the configuration document are as the request
\* for profile p asked: the profile is in both after a set, in neither after
\* a delete.
Reflected(p) ==
    LET held == InCreds(ReadCreds(profilesFile), p)
        named == InDoc(ReadDoc(configFile), p)
    IN IF req[p].kind = "set" THEN held /\ named ELSE ~held /\ ~named

\* C38: concurrent admin writes do not lose updates: once the setup-token or
\* provider-delete requests for two different profiles have both been
\* answered with success, the credential store and the configuration
\* document reflect both of them (no CLAUDE_SETUP_TOKEN in the environment,
\* so that no bootstrap writes to the store).
C38_NoLostUpdate ==
    (setupToken = "" /\ \A p \in ProfileIds : Served(p))
        => \A p \in ProfileIds : Reflected(p)

\* The request for profile p was a DELETE answered with success, and no
\* request for another profile has been made.
RemovedAlone(p) ==
    /\ Served(p)
    /\ req[p].kind = "delete"
    /\ \A q \in ProfileIds \ {p} : req[q].pc = "idle"

\* C39: a profile removed through DELETE /auth/providers/:profileId stays
\* removed: when a bootstrap that follows the request reaches the launch of
\* the gateway, the profile is in neither the credential store nor the
\* configuration document.
C39_RemovedStaysRemoved ==
    [][\A p \in ProfileIds :
          (RemovedAlone(p) /\ pc[1] = "launch" /\ pc'[1] = "wait")
              => /\ ~InCreds(ReadCreds(profilesFile'), p)
                 /\ ~InDoc(ReadDoc(configFile'), p)]_vars
====
